---------------------------- MODULE Spec2Model ----------------------------
(***************************************************************************)
(* A model of extract_points.py: extract_points_from_ggb opens a GeoGebra  *)
(* archive, parses geogebra.xml, collects the point elements that carry    *)
(* usable coordinates and writes them to a CSV file.                       *)
(*                                                                         *)
(* Text (attribute values, labels, CSV fields) is a sequence of one-       *)
(* character strings, so that float(), the float's repr and the CSV        *)
(* quoting are computed character by character.                            *)
(***************************************************************************)
EXTENDS Integers, Sequences, FiniteSets, TLC

(***************************************************************************)
(* Bounds of the model.                                                    *)
(***************************************************************************)
\* Largest number of XML nodes of a document of the structural family.
MaxNodes == 4
\* Largest number of point elements of a document of the attribute family.
MaxPoints == 2

(***************************************************************************)
(* Text helpers.                                                           *)
(***************************************************************************)
\* An attribute the element does not carry (Element.get then gives its default).
NoAttr == <<"<absent>">>

Digits == {"0", "1", "2", "3", "4", "5", "6", "7", "8", "9"}

DigitVal(c) ==
  CASE c = "0" -> 0 [] c = "1" -> 1 [] c = "2" -> 2 [] c = "3" -> 3
    [] c = "4" -> 4 [] c = "5" -> 5 [] c = "6" -> 6 [] c = "7" -> 7
    [] c = "8" -> 8 [] c = "9" -> 9

DigitChar(d) ==
  CASE d = 0 -> "0" [] d = 1 -> "1" [] d = 2 -> "2" [] d = 3 -> "3"
    [] d = 4 -> "4" [] d = 5 -> "5" [] d = 6 -> "6" [] d = 7 -> "7"
    [] d = 8 -> "8" [] d = 9 -> "9"

Whitespace == {" ", "\t", "\n", "\r"}

\* str.lower on the letters the float grammar looks at.
Lower(c) ==
  CASE c = "I" -> "i" [] c = "N" -> "n" [] c = "F" -> "f" [] c = "A" -> "a"
    [] c = "T" -> "t" [] c = "Y" -> "y" [] c = "E" -> "e"
    [] OTHER -> c

LowerAll(s) == [i \in 1..Len(s) |-> Lower(s[i])]

RECURSIVE StripLeft(_)
StripLeft(s) ==
  IF s # <<>> /\ Head(s) \in Whitespace THEN StripLeft(Tail(s)) ELSE s

RECURSIVE StripRight(_)
StripRight(s) ==
  IF s # <<>> /\ s[Len(s)] \in Whitespace
    THEN StripRight(SubSeq(s, 1, Len(s) - 1))
    ELSE s

Strip(s) == StripRight(StripLeft(s))

\* Index of the first occurrence of a character of cs in s, 0 when there is none.
FirstIndex(s, cs) ==
  IF \E i \in 1..Len(s) : s[i] \in cs
    THEN CHOOSE i \in 1..Len(s) : s[i] \in cs /\ \A j \in 1..(i - 1) : s[j] \notin cs
    ELSE 0

RECURSIVE Pow10(_)
Pow10(n) == IF n = 0 THEN 1 ELSE 10 * Pow10(n - 1)

(***************************************************************************)
(* float(str): the number a coordinate string denotes, or a ValueError.    *)
(* A float is [cls |-> "fin", neg, mant, exp] for (-1)^neg * mant * 10^exp *)
(* with mant not divisible by 10 (mant = 0 has exp = 0), or an infinity    *)
(* [cls |-> "inf", neg], or [cls |-> "nan"].                               *)
(***************************************************************************)
ValueError == [cls |-> "ValueError"]

\* A run of digits in which single underscores may separate digits.
IsDigitRun(s) ==
  /\ s # <<>>
  /\ \A i \in 1..Len(s) : s[i] \in Digits \cup {"_"}
  /\ s[1] \in Digits /\ s[Len(s)] \in Digits
  /\ \A i \in 1..(Len(s) - 1) : ~(s[i] = "_" /\ s[i + 1] = "_")

RECURSIVE DigitRunVal(_)
DigitRunVal(s) ==
  IF s = <<>> THEN 0
  ELSE IF s[Len(s)] = "_" THEN DigitRunVal(SubSeq(s, 1, Len(s) - 1))
  ELSE 10 * DigitRunVal(SubSeq(s, 1, Len(s) - 1)) + DigitVal(s[Len(s)])

DigitCount(s) == Cardinality({i \in 1..Len(s) : s[i] \in Digits})

RECURSIVE Normalize(_, _, _)
Normalize(neg, mant, exp) ==
  IF mant = 0 THEN [cls |-> "fin", neg |-> neg, mant |-> 0, exp |-> 0]
  ELSE IF mant % 10 = 0 THEN Normalize(neg, mant \div 10, exp + 1)
  ELSE [cls |-> "fin", neg |-> neg, mant |-> mant, exp |-> exp]

\* The mantissa text: digits, digits '.', '.' digits or digits '.' digits.
MantissaOK(m) ==
  LET dot == FirstIndex(m, {"."})
      ip == IF dot = 0 THEN m ELSE SubSeq(m, 1, dot - 1)
      fp == IF dot = 0 THEN <<>> ELSE SubSeq(m, dot + 1, Len(m))
  IN /\ ip = <<>> \/ IsDigitRun(ip)
     /\ fp = <<>> \/ IsDigitRun(fp)
     /\ ip # <<>> \/ fp # <<>>

\* The exponent text after 'e': an optional sign and digits.
ExponentOK(e) ==
  /\ e # <<>>
  /\ IsDigitRun(IF Head(e) \in {"+", "-"} THEN Tail(e) ELSE e)

ExponentVal(e) ==
  IF Head(e) = "-" THEN 0 - DigitRunVal(Tail(e))
  ELSE IF Head(e) = "+" THEN DigitRunVal(Tail(e))
  ELSE DigitRunVal(e)

ParseDecimal(neg, body) ==
  LET ePos == FirstIndex(body, {"e"})
      m == IF ePos = 0 THEN body ELSE SubSeq(body, 1, ePos - 1)
      e == IF ePos = 0 THEN <<>> ELSE SubSeq(body, ePos + 1, Len(body))
      dot == FirstIndex(m, {"."})
      ip == IF dot = 0 THEN m ELSE SubSeq(m, 1, dot - 1)
      fp == IF dot = 0 THEN <<>> ELSE SubSeq(m, dot + 1, Len(m))
  IN IF MantissaOK(m) /\ (ePos = 0 \/ ExponentOK(e))
       THEN Normalize(neg,
                      DigitRunVal(ip) * Pow10(DigitCount(fp)) + DigitRunVal(fp),
                      (IF ePos = 0 THEN 0 ELSE ExponentVal(e)) - DigitCount(fp))
       ELSE ValueError

\* float(s) of lines 68 and 69: surrounding whitespace is ignored, then an
\* optional sign and inf, infinity or nan in any case, or a decimal literal with
\* optional fraction and exponent.  ASCII digits only; the coordinate strings of
\* the model stay far inside the range of a double, so no literal overflows.
ParseFloat(s) ==
  LET t == LowerAll(Strip(s))
      signed == t # <<>> /\ Head(t) \in {"+", "-"}
      neg == t # <<>> /\ Head(t) = "-"
      body == IF signed THEN Tail(t) ELSE t
  IN IF body \in {<<"i", "n", "f">>, <<"i", "n", "f", "i", "n", "i", "t", "y">>}
       THEN [cls |-> "inf", neg |-> neg]
     ELSE IF body = <<"n", "a", "n">> THEN [cls |-> "nan"]
     ELSE ParseDecimal(neg, body)

IsFinite(v) == v.cls = "fin"

(***************************************************************************)
(* repr(float), the text csv.writer puts in a numeric field.               *)
(***************************************************************************)
\* The magnitudes of the model stay between 1e-4 and 1e16, where repr uses
\* positional notation.
RECURSIVE NatText(_)
NatText(n) ==
  IF n < 10 THEN <<DigitChar(n)>> ELSE NatText(n \div 10) \o <<DigitChar(n % 10)>>

Zeros(n) == [i \in 1..n |-> "0"]

FloatRepr(v) ==
  LET sign == IF v.neg THEN <<"-">> ELSE <<>>
  IN IF v.cls = "nan" THEN <<"n", "a", "n">>
     ELSE IF v.cls = "inf" THEN (IF v.neg THEN <<"-">> ELSE <<>>) \o <<"i", "n", "f">>
     ELSE LET ds == NatText(v.mant)
          IN IF v.exp >= 0
               THEN sign \o ds \o Zeros(v.exp) \o <<".", "0">>
             ELSE IF Len(ds) > 0 - v.exp
               THEN sign \o SubSeq(ds, 1, Len(ds) + v.exp) \o <<".">>
                         \o SubSeq(ds, Len(ds) + v.exp + 1, Len(ds))
             ELSE sign \o <<"0", ".">> \o Zeros((0 - v.exp) - Len(ds)) \o ds

(***************************************************************************)
(* The CSV field csv.DictWriter emits under its default QUOTE_MINIMAL      *)
(* dialect, and the text a CSV reader gets back from it.                   *)
(***************************************************************************)
CsvSpecial == {",", "\"", "\n", "\r"}

RECURSIVE DoubleQuotes(_)
DoubleQuotes(s) ==
  IF s = <<>> THEN <<>>
  ELSE (IF Head(s) = "\"" THEN <<"\"", "\"">> ELSE <<Head(s)>>) \o DoubleQuotes(Tail(s))

CsvField(s) ==
  IF \E i \in 1..Len(s) : s[i] \in CsvSpecial
    THEN <<"\"">> \o DoubleQuotes(s) \o <<"\"">>
    ELSE s

RECURSIVE HalveQuotes(_)
HalveQuotes(s) ==
  IF s = <<>> THEN <<>>
  ELSE IF Len(s) >= 2 /\ s[1] = "\"" /\ s[2] = "\""
    THEN <<"\"">> \o HalveQuotes(SubSeq(s, 3, Len(s)))
  ELSE <<Head(s)>> \o HalveQuotes(Tail(s))

CsvUnquote(f) ==
  IF Len(f) >= 2 /\ f[1] = "\"" /\ f[Len(f)] = "\""
    THEN HalveQuotes(SubSeq(f, 2, Len(f) - 1))
    ELSE f

\* fieldnames of line 90, as writeheader() writes them; the three characters of
\* the first column's name are written by their code points.
Header == << <<"U+70B9", "U+540D", "U+79F0">>, <<"x">>, <<"y">> >>

\* Line 95 with the x and y columns exchanged.
CsvRow_Swapped(point) == <<CsvField(point.label), FloatRepr(point.y), FloatRepr(point.x)>>

\* writer.writerow(point) of line 95.
CsvRow(point) == <<CsvField(point.label), FloatRepr(point.x), FloatRepr(point.y)>>

(***************************************************************************)
(* The parsed document: the elements in document order (preorder), each    *)
(* with its tag, the attributes the code reads and the index of its parent *)
(* (0 for the root element).                                               *)
(***************************************************************************)
PointType == <<"p", "o", "i", "n", "t">>

LineType == <<"l", "i", "n", "e">>

Node(tag, type, label, x, y, parent) ==
  [tag |-> tag, type |-> type, label |-> label, x |-> x, y |-> y, parent |-> parent]

\* Element.get(key, default) of lines 56, 61 and 62.
Get(node, key, default) == IF node[key] = NoAttr THEN default ELSE node[key]

\* root.findall(".//element[@type='point']") as the library computes it: the
\* descendants of root, in document order, that match; root itself is the
\* context node of the path and is not among them.
FindAllPoints(doc) ==
  LET match == {i \in 2..Len(doc) : doc[i].tag = "element" /\ doc[i].type = PointType}
      RECURSIVE Ascending(_, _)
      Ascending(S, from) ==
        IF S = {} THEN <<>>
        ELSE LET m == CHOOSE k \in S : \A j \in S : k <= j
             IN <<m>> \o Ascending(S \ {m}, m)
  IN Ascending(match, 0)

\* point_element.find('coords'): the first direct child tagged coords, 0 for None.
FindCoords(doc, i) ==
  LET kids == {j \in 1..Len(doc) : doc[j].parent = i /\ doc[j].tag = "coords"}
  IN IF kids = {} THEN 0 ELSE CHOOSE k \in kids : \A j \in kids : k <= j

(***************************************************************************)
(* The inputs of a call: the archive at ggb_file_path, the output_csv_path *)
(* argument and what the file system holds at the output paths.            *)
(***************************************************************************)
Letters == <<"A", "B", "C", "D", "E", "F", "G", "H">>

\* The label given to the element at position i of a structural document.
Name(i) == IF i <= Len(Letters) THEN <<Letters[i]>> ELSE <<"Z">> \o NatText(i)

StructKinds == {"point", "line", "coords_ok", "coords_empty"}

KindNode(kind, i, parent) ==
  CASE kind = "point" -> Node("element", PointType, Name(i), NoAttr, NoAttr, parent)
    [] kind = "line" -> Node("element", LineType, Name(i), NoAttr, NoAttr, parent)
    [] kind = "coords_ok" ->
         Node("coords", NoAttr, NoAttr, <<"1", ".", "5">>, <<"-", "2", ".", "0">>, parent)
    [] kind = "coords_empty" -> Node("coords", NoAttr, NoAttr, <<>>, <<"0">>, parent)

RECURSIVE OnPathToRoot(_, _, _)
OnPathToRoot(par, a, i) ==
  IF i = 0 THEN FALSE
  ELSE IF i = a THEN TRUE
  ELSE OnPathToRoot(par, a, par[i])

\* The parent vectors of the trees of n elements listed in document order: the
\* parent of an element is the element before it or one of that one's ancestors.
ParentVecs(n) ==
  {par \in [1..n -> 0..(n - 1)] :
     /\ par[1] = 0
     /\ \A i \in 2..n : par[i] >= 1 /\ par[i] < i /\ OnPathToRoot(par, par[i], i - 1)}

\* Structural family: every tree of at most MaxNodes elements over StructKinds.
StructDocs ==
  UNION {{[i \in 1..n |-> KindNode(kinds[i], i, par[i])] :
            kinds \in [1..n -> StructKinds], par \in ParentVecs(n)} : n \in 1..MaxNodes}

\* Attribute family: a geogebra root with at most MaxPoints point elements, each
\* with one coords child whose x and y are drawn from CoordPairs.
CoordPairs ==
  { << <<"1", ".", "5">>, <<"-", "2", ".", "0">> >>,
    << <<"0">>, <<" ", "1", "e", "1">> >>,
    << <<>>, <<"0">> >>,
    << <<"0">>, NoAttr >>,
    << <<"a", "b", "c">>, <<"0">> >>,
    << <<"0">>, <<"1", ".", "2", ".", "3">> >>,
    << <<"a", "b", "c">>, <<"x", "y", "z">> >>,
    << <<"a", "b", "c">>, <<>> >>,
    << <<"-", "I", "n", "f", "i", "n", "i", "t", "y">>, <<"n", "a", "n">> >> }

AttrLabels == {NoAttr, <<"P", ",", "1">>}

AttrItems == [label : AttrLabels, xy : CoordPairs]

FlatDoc(items) ==
  [i \in 1..(1 + 2 * Len(items)) |->
     IF i = 1 THEN Node("geogebra", NoAttr, NoAttr, NoAttr, NoAttr, 0)
     ELSE IF i % 2 = 0
       THEN Node("element", PointType, items[i \div 2].label, NoAttr, NoAttr, 1)
     ELSE Node("coords", NoAttr, NoAttr,
               items[i \div 2].xy[1], items[i \div 2].xy[2], i - 1)]

AttrDocs == UNION {{FlatDoc(items) : items \in [1..k -> AttrItems]} : k \in 0..MaxPoints}

Docs == StructDocs \cup AttrDocs

Archive(exists, isZip, members, wellFormed, doc) ==
  [exists |-> exists, isZip |-> isZip, members |-> members,
   wellFormed |-> wellFormed, doc |-> doc]

\* What ggb_file_path may name: nothing, a file that is no ZIP archive, a ZIP
\* archive without geogebra.xml, one whose geogebra.xml is not well-formed, or
\* one whose geogebra.xml parses to a document.
Archives ==
  {Archive(FALSE, FALSE, {}, FALSE, <<>>), Archive(TRUE, FALSE, {}, FALSE, <<>>)}
  \cup {Archive(TRUE, TRUE, m, FALSE, <<>>) :
          m \in {{}, {"geogebra_thumbnail.png"}, {"GeoGebra.xml", "geogebra.xml.bak"}}}
  \cup {Archive(TRUE, TRUE, {"geogebra.xml", "geogebra_thumbnail.png"}, FALSE, <<>>)}
  \cup {Archive(TRUE, TRUE, {"geogebra.xml", "geogebra_thumbnail.png"}, TRUE, d) : d \in Docs}

Path(dir, stem, ext) == [dir |-> dir, stem |-> stem, ext |-> ext]

NonePath == Path("", <<>>, "")

GgbPath == Path("work", <<"calculus">>, ".ggb")

ExplicitOutput == Path("out", <<"result">>, ".csv")

\* Lines 32 to 36: <stem>_points.csv in the directory of the archive.
DefaultOutput(p) == Path(p.dir, p.stem \o <<"_points">>, ".csv")

OutPaths == {ExplicitOutput, DefaultOutput(GgbPath)}

NoFile == [exists |-> FALSE, rows |-> <<>>]

StaleFile == [exists |-> TRUE, rows |-> << <<<<"s", "t", "a", "l", "e">>>> >>]

\* Before the call a file from an earlier run is at the explicit output path and
\* nothing is at the default one.
InitialFs == [p \in OutPaths |-> IF p = ExplicitOutput THEN StaleFile ELSE NoFile]

(***************************************************************************)
(* The state of one call of extract_points_from_ggb.                       *)
(***************************************************************************)
VARIABLES
  archive,          \* what ggb_file_path names (an input, never changed)
  output_csv_path,  \* the argument, then the path of lines 31 to 36
  pc,               \* the statement the call is at
  zip_ref,          \* the archive handle: "none", "open" or "closed"
  xml_content,      \* the bytes read from geogebra.xml (their document is archive.doc)
  root,             \* the parsed document
  point_elements,   \* the elements findall selected (indices into root)
  idx,              \* the position of the for loop in point_elements
  points,           \* the list of line 38
  stdout,           \* what print has written
  fs,               \* the files at the output paths
  writes,           \* how many times an output file was opened for writing
  exc,              \* the exception propagating out of the with block
  result            \* how the call ended

vars == <<archive, output_csv_path, pc, zip_ref, xml_content, root,
          point_elements, idx, points, stdout, fs, writes, exc, result>>

NoBytes == [read |-> FALSE, wellFormed |-> FALSE]

Running == [kind |-> "running", type |-> "", msg |-> "", value |-> <<>>]

Raise(type, msg) == [kind |-> "raise", type |-> type, msg |-> msg, value |-> <<>>]

Returned(value) == [kind |-> "return", type |-> "", msg |-> "", value |-> value]

Init ==
  /\ archive \in Archives
  /\ output_csv_path \in {NonePath, ExplicitOutput}
  /\ pc = "check_exists"
  /\ zip_ref = "none"
  /\ xml_content = NoBytes
  /\ root = <<>>
  /\ point_elements = <<>>
  /\ idx = 1
  /\ points = <<>>
  /\ stdout = <<>>
  /\ fs = InitialFs
  /\ writes = 0
  /\ exc = ""
  /\ result = Running

\* Lines 27 and 28.
CheckExists ==
  /\ pc = "check_exists"
  /\ IF archive.exists
       THEN pc' = "default_output" /\ result' = result
       ELSE pc' = "done" /\ result' = Raise("FileNotFoundError", "missing")
  /\ UNCHANGED <<archive, output_csv_path, zip_ref, xml_content, root,
                 point_elements, idx, points, stdout, fs, writes, exc>>

\* Lines 31 to 38 with the output file opened for writing before the archive
\* is read.
SetDefaultOutput_OpensFile ==
  /\ pc = "default_output"
  /\ output_csv_path' =
       IF output_csv_path = NonePath THEN DefaultOutput(GgbPath) ELSE output_csv_path
  /\ fs' = [fs EXCEPT ![output_csv_path'] = [exists |-> TRUE, rows |-> <<>>]]
  /\ writes' = writes + 1
  /\ points' = <<>>
  /\ pc' = "open_zip"
  /\ UNCHANGED <<archive, zip_ref, xml_content, root, point_elements, idx,
                 stdout, exc, result>>

\* Lines 31 to 38.
SetDefaultOutput ==
  /\ pc = "default_output"
  /\ output_csv_path' =
       IF output_csv_path = NonePath THEN DefaultOutput(GgbPath) ELSE output_csv_path
  /\ points' = <<>>
  /\ pc' = "open_zip"
  /\ UNCHANGED <<archive, zip_ref, xml_content, root, point_elements, idx,
                 stdout, fs, writes, exc, result>>

\* Line 42, entering the with block: zipfile.ZipFile raises BadZipFile on a file
\* that is no ZIP archive and leaves no handle behind.
OpenZip ==
  /\ pc = "open_zip"
  /\ IF archive.isZip
       THEN zip_ref' = "open" /\ pc' = "read_xml" /\ exc' = exc
       ELSE zip_ref' = zip_ref /\ pc' = "except" /\ exc' = "BadZipFile"
  /\ UNCHANGED <<archive, output_csv_path, xml_content, root, point_elements,
                 idx, points, stdout, fs, writes, result>>

\* Line 44: ZipFile.read raises KeyError when no member has that exact name.
ReadXml ==
  /\ pc = "read_xml"
  /\ IF "geogebra.xml" \in archive.members
       THEN /\ xml_content' = [read |-> TRUE, wellFormed |-> archive.wellFormed]
            /\ pc' = "parse_xml" /\ exc' = exc
       ELSE xml_content' = xml_content /\ pc' = "exit_with" /\ exc' = "KeyError"
  /\ UNCHANGED <<archive, output_csv_path, zip_ref, root, point_elements,
                 idx, points, stdout, fs, writes, result>>

\* Line 47: ET.fromstring raises ParseError on bytes that are not well-formed.
ParseXml ==
  /\ pc = "parse_xml"
  /\ IF xml_content.wellFormed
       THEN root' = archive.doc /\ pc' = "findall" /\ exc' = exc
       ELSE root' = root /\ pc' = "exit_with" /\ exc' = "ParseError"
  /\ UNCHANGED <<archive, output_csv_path, zip_ref, xml_content,
                 point_elements, idx, points, stdout, fs, writes, result>>

\* Line 52.
FindAll ==
  /\ pc = "findall"
  /\ point_elements' = FindAllPoints(root)
  /\ idx' = 1
  /\ pc' = "loop"
  /\ UNCHANGED <<archive, output_csv_path, zip_ref, xml_content, root,
                 points, stdout, fs, writes, exc, result>>

\* Line 56.
LabelOf(doc, i) == Get(doc[i], "label", <<>>)

\* Lines 61 and 62: the raw x and y of the coords element c.
RawXY(doc, c) == <<Get(doc[c], "x", <<>>), Get(doc[c], "y", <<>>)>>

\* Line 65 testing x alone.
BothGiven_OnlyX(x, y) == x # <<>>

\* The test of line 65.
BothGiven(x, y) == x # <<>> /\ y # <<>>

\* Line 69 outside the try: only the conversion of x is guarded.
Converts_OnlyX(x, y) == ParseFloat(x) # ValueError

\* Lines 68 and 69 under the try of line 66: either conversion raising
\* ValueError sends the element to the handler of line 75.
Converts(x, y) == ParseFloat(x) # ValueError /\ ParseFloat(y) # ValueError

\* The record of lines 70 to 74.
PointRecord(label, x, y) ==
  [label |-> label, x |-> ParseFloat(x), y |-> ParseFloat(y)]

\* The message of line 77.
Warning(label, x, y) == [kind |-> "warning", label |-> label, x |-> x, y |-> y, count |-> 0]

\* The message of line 97.
Saved(n, path) == [kind |-> "saved", label |-> path.stem, x |-> <<>>, y |-> <<>>, count |-> n]

\* The message of line 99.
NoneFound == [kind |-> "none_found", label |-> <<>>, x |-> <<>>, y |-> <<>>, count |-> 0]

\* Lines 54 to 78, one iteration of the for loop.
LoopBody ==
  /\ pc = "loop"
  /\ idx <= Len(point_elements)
  /\ LET e == point_elements[idx]
         label == LabelOf(root, e)
         coords == FindCoords(root, e)
         x == IF coords = 0 THEN <<>> ELSE RawXY(root, coords)[1]
         y == IF coords = 0 THEN <<>> ELSE RawXY(root, coords)[2]
     IN IF coords # 0 /\ BothGiven(x, y)
          THEN IF Converts(x, y)
                 THEN /\ points' = Append(points, PointRecord(label, x, y))
                      /\ stdout' = stdout
                 ELSE /\ points' = points
                      /\ stdout' = Append(stdout, Warning(label, x, y))
          ELSE points' = points /\ stdout' = stdout
  /\ idx' = idx + 1
  /\ UNCHANGED <<archive, output_csv_path, pc, zip_ref, xml_content, root,
                 point_elements, fs, writes, exc, result>>

\* Line 54 with point_elements exhausted: control leaves the with block.
LoopEnd ==
  /\ pc = "loop"
  /\ idx > Len(point_elements)
  /\ pc' = "exit_with"
  /\ UNCHANGED <<archive, output_csv_path, zip_ref, xml_content, root,
                 point_elements, idx, points, stdout, fs, writes, exc, result>>

\* The handle closed by a zip_ref.close() at the end of the block instead of a
\* with statement: an exception leaves it open.
ExitWith_LeakOnError ==
  /\ pc = "exit_with"
  /\ zip_ref' = IF exc = "" THEN "closed" ELSE zip_ref
  /\ pc' = IF exc = "" THEN "write_csv" ELSE "except"
  /\ UNCHANGED <<archive, output_csv_path, xml_content, root, point_elements,
                 idx, points, stdout, fs, writes, exc, result>>

\* Line 42, leaving the with block: ZipFile.__exit__ closes the handle, on the
\* normal path and with an exception propagating alike.
ExitWith ==
  /\ pc = "exit_with"
  /\ zip_ref' = "closed"
  /\ pc' = IF exc = "" THEN "write_csv" ELSE "except"
  /\ UNCHANGED <<archive, output_csv_path, xml_content, root, point_elements,
                 idx, points, stdout, fs, writes, exc, result>>

\* The handlers of lines 82 and 84 with their messages exchanged.
HandlerMessage_Swapped(e) ==
  CASE e = "BadZipFile" -> "not_a_valid_zip"
    [] e = "ParseError" -> "geogebra_xml_not_found"
    [] e = "KeyError" -> "xml_parse_error"

\* Lines 80 to 85: each handler raises ValueError with its own message.
HandlerMessage(e) ==
  CASE e = "BadZipFile" -> "not_a_valid_zip"
    [] e = "ParseError" -> "xml_parse_error"
    [] e = "KeyError" -> "geogebra_xml_not_found"

Except ==
  /\ pc = "except"
  /\ result' = Raise("ValueError", HandlerMessage(exc))
  /\ pc' = "done"
  /\ UNCHANGED <<archive, output_csv_path, zip_ref, xml_content, root,
                 point_elements, idx, points, stdout, fs, writes, exc>>

\* Lines 89 to 95: the file open(..., 'w') and the DictWriter leave behind.
CsvFile(pts) ==
  [exists |-> TRUE, rows |-> <<Header>> \o [i \in 1..Len(pts) |-> CsvRow(pts[i])]]

\* Lines 89 to 97 without the test of line 88: the file is written for an empty
\* list too.
WriteCsv_Always ==
  /\ pc = "write_csv"
  /\ fs' = [fs EXCEPT ![output_csv_path] = CsvFile(points)]
  /\ writes' = writes + 1
  /\ stdout' = Append(stdout, IF points # <<>> THEN Saved(Len(points), output_csv_path)
                                               ELSE NoneFound)
  /\ pc' = "return"
  /\ UNCHANGED <<archive, output_csv_path, zip_ref, xml_content, root,
                 point_elements, idx, points, exc, result>>

\* Lines 88 to 99.
WriteCsv ==
  /\ pc = "write_csv"
  /\ IF points # <<>>
       THEN /\ fs' = [fs EXCEPT ![output_csv_path] = CsvFile(points)]
            /\ writes' = writes + 1
            /\ stdout' = Append(stdout, Saved(Len(points), output_csv_path))
       ELSE /\ fs' = fs /\ writes' = writes
            /\ stdout' = Append(stdout, NoneFound)
  /\ pc' = "return"
  /\ UNCHANGED <<archive, output_csv_path, zip_ref, xml_content, root,
                 point_elements, idx, points, exc, result>>

\* Line 101.
Return ==
  /\ pc = "return"
  /\ result' = Returned(points)
  /\ pc' = "done"
  /\ UNCHANGED <<archive, output_csv_path, zip_ref, xml_content, root,
                 point_elements, idx, points, stdout, fs, writes, exc>>

Next ==
  \/ CheckExists
  \/ SetDefaultOutput
  \/ OpenZip
  \/ ReadXml
  \/ ParseXml
  \/ FindAll
  \/ LoopBody
  \/ LoopEnd
  \/ ExitWith
  \/ Except
  \/ WriteCsv
  \/ Return

Spec == Init /\ [][Next]_vars


(***************************************************************************)
(* The notions the properties below are stated in, read off the document   *)
(* itself and not off the steps of the call.                               *)
(***************************************************************************)
\* The elements tagged element with type="point", the root element included.
IsPointElement(doc, i) == doc[i].tag = "element" /\ doc[i].type = PointType

AllPointElements(doc) == {i \in 1..Len(doc) : IsPointElement(doc, i)}

\* The elements of S in document order.
RECURSIVE InDocumentOrder(_)
InDocumentOrder(S) ==
  IF S = {} THEN <<>>
  ELSE LET m == CHOOSE k \in S : \A j \in S : k <= j
       IN <<m>> \o InDocumentOrder(S \ {m})

CoordsChildren(doc, i) == {j \in 1..Len(doc) : doc[j].parent = i /\ doc[j].tag = "coords"}

FirstCoords(doc, i) == CHOOSE c \in CoordsChildren(doc, i) : \A j \in CoordsChildren(doc, i) : c <= j

\* An attribute that is absent or the empty string.
Missing(t) == t = NoAttr \/ t = <<>>

\* No coords child, or a coords child without a usable x or y.
LacksCoordinates(doc, i) ==
  \/ CoordsChildren(doc, i) = {}
  \/ Missing(doc[FirstCoords(doc, i)].x)
  \/ Missing(doc[FirstCoords(doc, i)].y)

Unparseable(t) == ~Missing(t) /\ ParseFloat(t) = ValueError

Numeric(t) == ~Missing(t) /\ ParseFloat(t) # ValueError

\* x and y both given, at least one of them not a number.
Garbled(doc, i) ==
  /\ ~LacksCoordinates(doc, i)
  /\ Unparseable(doc[FirstCoords(doc, i)].x) \/ Unparseable(doc[FirstCoords(doc, i)].y)

FullySpecified(doc, i) ==
  /\ CoordsChildren(doc, i) # {}
  /\ Numeric(doc[FirstCoords(doc, i)].x)
  /\ Numeric(doc[FirstCoords(doc, i)].y)

ExpectedRecord(doc, i) ==
  [label |-> IF doc[i].label = NoAttr THEN <<>> ELSE doc[i].label,
   x |-> ParseFloat(doc[FirstCoords(doc, i)].x),
   y |-> ParseFloat(doc[FirstCoords(doc, i)].y)]

Warnings == {k \in 1..Len(stdout) : stdout[k].kind = "warning"}

\* The for loop is about to process the element e.
AtElement(e) == pc = "loop" /\ idx <= Len(point_elements) /\ e = point_elements[idx]

\* The call has parsed a document and returned.
ReturnedNormally == pc = "done" /\ result.kind = "return"

(***************************************************************************)
(* Properties.                                                             *)
(***************************************************************************)
\* C1: for an archive whose document holds N point elements (the root element
\* counted), each with a coords child with numeric x and y, the call returns
\* exactly N records, the i-th carrying the label, x and y of the i-th such
\* element in document order.
C1_AllPointsReturned ==
  (pc = "done" /\ archive.exists /\ archive.isZip /\ "geogebra.xml" \in archive.members
     /\ archive.wellFormed
     /\ \A i \in AllPointElements(archive.doc) : FullySpecified(archive.doc, i))
  => /\ result.kind = "return"
     /\ result.value =
          LET order == InDocumentOrder(AllPointElements(archive.doc))
          IN [k \in 1..Len(order) |-> ExpectedRecord(archive.doc, order[k])]

\* C2: a selected point element with no coords child, or whose coords has an
\* absent or empty x or y, adds no record, raises nothing and prints no warning,
\* and the loop goes on to the next element; the call then returns normally,
\* every other selected element having yielded a record or a warning.
C2_SkippedSilently ==
  /\ [][\A e \in 1..Len(root) :
          (AtElement(e) /\ LacksCoordinates(root, e))
          => /\ points' = points /\ stdout' = stdout
             /\ exc' = "" /\ result' = Running
             /\ pc' = "loop" /\ idx' = idx + 1]_vars
  /\ []((pc = "done" /\ root # <<>>)
        => /\ result.kind = "return"
           /\ idx = Len(point_elements) + 1
           /\ Len(points) + Cardinality(Warnings) =
                Cardinality({k \in 1..Len(point_elements) :
                               ~LacksCoordinates(root, point_elements[k])}))

C2_Witness ==
  /\ ReturnedNormally
  /\ idx = Len(point_elements) + 1
  /\ \E k \in 1..Len(point_elements) : CoordsChildren(root, point_elements[k]) = {}
  /\ \E k \in 1..Len(point_elements) :
       /\ CoordsChildren(root, point_elements[k]) # {}
       /\ LacksCoordinates(root, point_elements[k])

\* C3 as stated: a selected point element whose x or y is non-empty but not
\* parseable adds no record and causes exactly one warning naming its label.
C3_Original ==
  [][\A e \in 1..Len(root) :
       (/\ AtElement(e)
        /\ CoordsChildren(root, e) # {}
        /\ Unparseable(root[FirstCoords(root, e)].x) \/ Unparseable(root[FirstCoords(root, e)].y))
       => /\ points' = points
          /\ Len(stdout') = Len(stdout) + 1
          /\ stdout'[Len(stdout')].kind = "warning"
          /\ stdout'[Len(stdout')].label = ExpectedRecord(root, e).label]_vars

\* C3 as amended: a selected point element whose x and y are both non-empty, at
\* least one of them not parseable, adds no record and causes exactly one
\* warning naming its label and the raw values; the loop goes on, and at the end
\* the number of warnings equals the number of such selected elements.
C3_WarnsOncePerGarbled ==
  /\ [][\A e \in 1..Len(root) :
          (AtElement(e) /\ Garbled(root, e))
          => /\ points' = points
             /\ Len(stdout') = Len(stdout) + 1
             /\ SubSeq(stdout', 1, Len(stdout)) = stdout
             /\ stdout'[Len(stdout')].kind = "warning"
             /\ stdout'[Len(stdout')].label = ExpectedRecord(root, e).label
             /\ stdout'[Len(stdout')].x = root[FirstCoords(root, e)].x
             /\ stdout'[Len(stdout')].y = root[FirstCoords(root, e)].y
             /\ exc' = "" /\ result' = Running
             /\ pc' = "loop" /\ idx' = idx + 1]_vars
  /\ []((pc = "done" /\ root # <<>>)
        => /\ result.kind = "return"
           /\ Cardinality(Warnings) =
                Cardinality({k \in 1..Len(point_elements) : Garbled(root, point_elements[k])}))

C3_Witness ==
  /\ ReturnedNormally
  /\ Cardinality(Warnings) = 1
  /\ points # <<>>
  /\ \E k \in 1..Len(point_elements) :
       /\ Garbled(root, point_elements[k])
       /\ Unparseable(root[FirstCoords(root, point_elements[k])].x)
       /\ Unparseable(root[FirstCoords(root, point_elements[k])].y)

\* C4: the fatal checks apply in order and the first that fails decides the
\* error: a missing path raises FileNotFoundError; a file that is no ZIP archive,
\* an archive with no member named exactly geogebra.xml and a geogebra.xml that
\* is not well-formed each raise ValueError with the message of that cause; an
\* archive that passes all four does not raise.
C4_FatalErrors ==
  pc = "done" =>
    IF ~archive.exists THEN result = Raise("FileNotFoundError", "missing")
    ELSE IF ~archive.isZip THEN result = Raise("ValueError", "not_a_valid_zip")
    ELSE IF "geogebra.xml" \notin archive.members
      THEN result = Raise("ValueError", "geogebra_xml_not_found")
    ELSE IF ~archive.wellFormed THEN result = Raise("ValueError", "xml_parse_error")
    ELSE result.kind = "return"

C4_Witness ==
  /\ pc = "done"
  /\ "GeoGebra.xml" \in archive.members
  /\ result = Raise("ValueError", "geogebra_xml_not_found")

\* C5: whenever the call ends with a fatal error, or an exception is on its way
\* to a handler, no output file has been created or written: the files at the
\* explicit and the default output path are as they were before the call.
C5_NoOutputOnError ==
  (result.kind = "raise" \/ exc # "") => (fs = InitialFs /\ writes = 0)

C5_Witness ==
  /\ result = Raise("ValueError", "xml_parse_error")
  /\ output_csv_path = DefaultOutput(GgbPath)
  /\ ~fs[output_csv_path].exists

\* C6: on a call that returns, the output file is written if and only if the
\* returned list is non-empty: with no point retained the list is empty, the
\* 'no points found' notice is printed and no file is created or touched; with
\* a point retained exactly one write happens, to output_csv_path alone, and
\* the count reported is the length of the returned list.
C6_WrittenIffNonEmpty ==
  ReturnedNormally =>
    /\ result.value = points
    /\ stdout # <<>>
    /\ IF result.value = <<>>
         THEN /\ fs = InitialFs /\ writes = 0
              /\ stdout[Len(stdout)] = NoneFound
              /\ \A k \in 1..Len(stdout) : stdout[k].kind # "saved"
         ELSE /\ writes = 1
              /\ fs[output_csv_path].exists
              /\ fs[output_csv_path] # InitialFs[output_csv_path]
              /\ \A p \in OutPaths \ {output_csv_path} : fs[p] = InitialFs[p]
              /\ stdout[Len(stdout)].kind = "saved"
              /\ stdout[Len(stdout)].count = Len(result.value)
              /\ \A k \in 1..Len(stdout) : stdout[k].kind # "none_found"

C6_Witness ==
  /\ ReturnedNormally
  /\ point_elements # <<>>
  /\ result.value = <<>>
  /\ fs = InitialFs
  /\ stdout[Len(stdout)] = NoneFound

\* C7: a written output file holds the header row and then exactly one row per
\* record of the returned list, in the same order, each row reading back as the
\* label, x and y of its record; so it holds no row for a skipped element.
C7_FileMatchesResult ==
  (writes > 0 /\ pc \in {"return", "done"}) =>
    LET rows == fs[output_csv_path].rows
    IN /\ Len(rows) = 1 + Len(points)
       /\ rows[1] = Header
       /\ \A i \in 1..Len(points) :
            /\ Len(rows[i + 1]) = 3
            /\ CsvUnquote(rows[i + 1][1]) = points[i].label
            /\ ParseFloat(rows[i + 1][2]) = points[i].x
            /\ ParseFloat(rows[i + 1][3]) = points[i].y
       /\ pc = "done" => result.value = points

C7_Witness ==
  /\ ReturnedNormally
  /\ Len(result.value) = 2
  /\ result.value[1].x # result.value[2].x
  /\ result.value[1].label = <<"P", ",", "1">>
  /\ fs[output_csv_path].rows[2][1] = <<"\"", "P", ",", "1", "\"">>

\* C8: every record collected has finite x and y; a coordinate string such as
\* 'inf', '-Infinity' or 'nan' makes the element be discarded.
C8_RecordsFinite ==
  \A i \in 1..Len(points) : IsFinite(points[i].x) /\ IsFinite(points[i].y)

\* C9: the selection visits every element of the document tagged element with
\* type="point", at any depth and the root element included, each exactly once
\* and in document order.
C9_SelectsEveryPoint ==
  (pc \in {"loop", "write_csv", "return", "done"} /\ root # <<>>)
  => point_elements = InDocumentOrder(AllPointElements(root))

\* C10: the archive handle is closed on every exit path: it is never open once
\* control has left the with block (in a handler, at the write step, at the
\* return or after the call), it is closed before any output file is opened,
\* and none exists before line 42.
C10_HandleClosed ==
  /\ pc \in {"check_exists", "default_output", "open_zip"} => zip_ref = "none"
  /\ pc \in {"read_xml", "parse_xml", "findall", "loop", "exit_with"} => zip_ref = "open"
  /\ pc \in {"except", "write_csv", "return", "done"} => zip_ref # "open"
  /\ (pc \in {"write_csv", "return"} \/ writes > 0 \/ result.kind = "return")
       => zip_ref = "closed"
  /\ (result.kind = "raise" /\ archive.isZip) => zip_ref = "closed"

C10_Witness ==
  /\ pc = "done"
  /\ result = Raise("ValueError", "xml_parse_error")
  /\ zip_ref = "closed"

==========================================================================
